---- MODULE Spec2Model ----
(***************************************************************************)
(* Model of streamlit_app.py, the OPD dashboard.  One step of the model is *)
(* one run of the script (Streamlit re-runs the whole script on every user *)
(* event).  The store is the data rows of the Google sheet; the session    *)
(* state is current_view; the widget state is the date picker's and the    *)
(* prompt box's value; everything else is what the last run produced.      *)
(***************************************************************************)
EXTENDS Integers, Sequences, FiniteSets, TLC

\* ------------------------------------------------------------- bounds
\* Most data rows the sheet holds (Save Entry is disabled beyond it).
MaxRows == 3
\* Longest text typed into the prompt box.
MaxPromptLen == 2

\* ------------------------------------------------------ Python values
\* A Python value: its type, and its text (str) or its number (int, date).
\* A date is held as the number yyyymmdd.
PyStr(s) == [t |-> "str", s |-> s, n |-> 0]
PyInt(n) == [t |-> "int", s |-> "", n |-> n]
PyDate(d) == [t |-> "date", s |-> "", n |-> d]
PyNone == [t |-> "None", s |-> "", n |-> 0]

\* Python's ==: values of different types (a str and a datetime.date, a str
\* and an int) are never equal.
PyEq(a, b) == a.t = b.t /\ a.s = b.s /\ a.n = b.n

\* The calendar dates the date pickers offer here.
SampleDates == {20240101, 20240102}

\* date.isoformat(), which str(date) returns, on the dates used here.
IsoFormatTable == (20240101 :> "2024-01-01") @@ (20240102 :> "2024-01-02")

\* str(opd_date) of line 73.
StrOfDate(d) == PyStr(IsoFormatTable[d.n])

\* The decimal text of the whole numbers used here: how the sheet shows a
\* number cell, and what int() parses.
DecimalTable == (0 :> "0") @@ (12 :> "12") @@ (34 :> "34") @@ (120 :> "120")

\* Whether int(text) succeeds, and its value.
IsIntLiteral(text) == \E k \in DOMAIN DecimalTable : DecimalTable[k] = text
IntOf(text) == CHOOSE k \in DOMAIN DecimalTable : DecimalTable[k] = text

\* ------------------------------------------------------- entry form
AgeMin == 0
AgeMax == 120
GenderOptions == {"Male", "Female", "Other"}
PrakritiOptions ==
    {"Vata", "Pitta", "Kapha", "Vata-Pitta", "Pitta-Kapha", "Vata-Kapha"}
FollowUpOptions == {"Yes", "No"}

\* What the eight widgets of the form return on submit.
Form(d, name, age, gender, prakriti, complaint, diagnosis, follow_up) ==
    [opd_date |-> PyDate(d), patient_name |-> PyStr(name), age |-> PyInt(age),
     gender |-> PyStr(gender), prakriti |-> PyStr(prakriti),
     complaint |-> PyStr(complaint), diagnosis |-> PyStr(diagnosis),
     follow_up |-> PyStr(follow_up)]

\* The widgets' own constraints (lines 52-62).
FormValid(f) ==
    /\ f.opd_date.t = "date"
    /\ f.patient_name.t = "str" /\ f.complaint.t = "str" /\ f.diagnosis.t = "str"
    /\ f.age.t = "int" /\ f.age.n >= AgeMin /\ f.age.n <= AgeMax
    /\ f.gender.s \in GenderOptions
    /\ f.prakriti.s \in PrakritiOptions
    /\ f.follow_up.s \in FollowUpOptions

\* The submissions tried: two on the first date with different diagnoses and
\* prakritis, a complaint typed as digits, empty free texts, the age bounds.
SampleForms ==
    { Form(20240101, "Asha", 34, "Female", "Vata", "Cough", "Cold", "Yes"),
      Form(20240101, "Ravi", 0, "Male", "Pitta", "12", "Fever", "No"),
      Form(20240102, "", 120, "Other", "Kapha", "", "Fever", "Yes") }

NoForm == Form(0, "", 0, "", "", "", "", "")

\* --------------------------------------------------------- the sheet
\* The header row of the sheet; get_all_records keys every record by it and
\* the overview reads the columns Date, FollowUp, Diagnosis and Prakriti.
HEADER ==
    <<"Date", "Name", "Age", "Gender", "Prakriti", "Complaint", "Diagnosis",
      "FollowUp">>

\* Row with the complaint and the diagnosis in each other's place.
RowSwapped(f) ==
    <<StrOfDate(f.opd_date), f.patient_name, f.age, f.gender, f.prakriti,
      f.diagnosis, f.complaint, f.follow_up>>

\* The list passed to sheet.append_row (lines 72-81).
Row(f) ==
    <<StrOfDate(f.opd_date), f.patient_name, f.age, f.gender, f.prakriti,
      f.complaint, f.diagnosis, f.follow_up>>

\* AppendRow writing the new row above the existing ones.
AppendRowAtTop(rows, row) == <<row>> \o rows

\* sheet.append_row: the row becomes the sheet's last row.
AppendRow(rows, row) == Append(rows, row)

\* The text the sheet returns for a cell (get_all_records reads formatted
\* values): a string cell as it is, a number cell in decimal.
CellText(c) == IF c.t = "int" THEN DecimalTable[c.n] ELSE c.s

\* gspread's numericise, which get_all_records applies to every cell: the
\* text becomes an int when int() parses it, and stays a str otherwise.
Numericise(text) == IF IsIntLiteral(text) THEN PyInt(IntOf(text)) ELSE PyStr(text)

\* One record of get_all_records: the header zipped with the row's values.
HeaderColumn ==
    [h \in {HEADER[i] : i \in 1..Len(HEADER)} |->
        CHOOSE i \in 1..Len(HEADER) : HEADER[i] = h]
RecordOf(row) ==
    [h \in DOMAIN HeaderColumn |-> Numericise(CellText(row[HeaderColumn[h]]))]

\* sheet.get_all_records() (line 92): every data row, in sheet order.
GetAllRecords(rows) == [i \in 1..Len(rows) |-> RecordOf(rows[i])]

\* ------------------------------------------------- overview aggregator
\* The column of a frame: df["Diagnosis"] and the like.
Column(df, h) == [i \in 1..Len(df) |-> df[i][h]]

\* `if selected_date:` with df[df["Date"] == selected_date] (lines 106-107):
\* None keeps every row, a date keeps the rows whose Date equals, in
\* Python's sense, the datetime.date of the picker.
DateFilter(df, selected) ==
    IF selected.t = "None" THEN df
    ELSE SelectSeq(df, LAMBDA r : PyEq(r["Date"], selected))

\* Series.value_counts().get(v, 0).
CountOf(col, v) == Cardinality({i \in 1..Len(col) : PyEq(col[i], v)})

\* The texts of the Diagnosis and Prakriti columns used here, in Python's
\* string order, which Series.mode() sorts its result by.
SortedText ==
    <<"", "Cold", "Fever", "Kapha", "Pitta", "Pitta-Kapha", "Vata",
      "Vata-Kapha", "Vata-Pitta">>
Rank(v) == CHOOSE i \in 1..Len(SortedText) : SortedText[i] = v.s
PyLess(a, b) == Rank(a) < Rank(b)

\* Mode taking, of the values that occur most often, the one met first.
ModeFirstSeen(col) ==
    LET vals == {col[i] : i \in 1..Len(col)}
        modes == {v \in vals : \A w \in vals : CountOf(col, w) <= CountOf(col, v)}
    IN col[CHOOSE i \in 1..Len(col) :
              col[i] \in modes /\ \A j \in 1..(i - 1) : col[j] \notin modes]

\* Series.mode()[0]: of the values that occur most often, the first in
\* sorted order.
Mode(col) ==
    LET vals == {col[i] : i \in 1..Len(col)}
        modes == {v \in vals : \A w \in vals : CountOf(col, w) <= CountOf(col, v)}
    IN CHOOSE v \in modes : \A w \in modes : w = v \/ PyLess(v, w)

\* The four metrics (lines 112-115).
Kpis(df) ==
    [total |-> Len(df),
     followups |-> CountOf(Column(df, "FollowUp"), PyStr("Yes")),
     top_diagnosis |-> IF Len(df) > 0 THEN Mode(Column(df, "Diagnosis")) ELSE PyStr("-"),
     top_prakriti |-> IF Len(df) > 0 THEN Mode(Column(df, "Prakriti")) ELSE PyStr("-")]

\* ------------------------------------------------------ prompt builder
ROLE == "You are assisting an Ayurvedic doctor."
RULES ==
    <<"Do NOT diagnose", "Do NOT suggest medicines", "Do NOT change treatment",
      "Only summarize and observe patterns", "Use simple, non-alarming language">>
FixedTask(text) == [text |-> text, insert |-> <<>>]
TASKS(user_prompt) ==
    <<[text |-> "Give a short OPD summary + ", insert |-> user_prompt],
      FixedTask("List most common complaints"),
      FixedTask("List common diagnoses"),
      FixedTask("Mention prakriti trends"),
      FixedTask("Mention follow-up workload"),
      FixedTask("How Next week will be?"),
      FixedTask("How I can be Prepared?")>>

\* build_opd_prompt (lines 140-162): the template's parts in order.  The data
\* part stands for the text Python's formatting gives the list of records.
build_opd_prompt(opd_json, user_prompt) ==
    [role |-> ROLE, rules |-> RULES, data |-> opd_json, tasks |-> TASKS(user_prompt)]

\* The texts of the prompt box: sequences of characters.
PromptChars == {" ", "s"}
Whitespace == {" ", "\t", "\n"}
PromptTexts == UNION {[1..k -> PromptChars] : k \in 0..MaxPromptLen}

\* str.strip(): the text without its leading and trailing whitespace.
RECURSIVE LStrip(_)
LStrip(s) == IF s # <<>> /\ Head(s) \in Whitespace THEN LStrip(Tail(s)) ELSE s
RECURSIVE RStrip(_)
RStrip(s) ==
    IF s # <<>> /\ s[Len(s)] \in Whitespace THEN RStrip(SubSeq(s, 1, Len(s) - 1))
    ELSE s
Strip(s) == RStrip(LStrip(s))

\* IsBlank without the strip.
IsBlankNoStrip(user_prompt) == user_prompt = <<>>

\* `user_prompt.strip() == ""` (line 176).
IsBlank(user_prompt) == Strip(user_prompt) = <<>>

\* ------------------------------------------------------------- state
VARIABLES
    store,          \* the sheet's data rows, oldest first
    current_view,   \* st.session_state.current_view
    selected_date,  \* the date picker's value (None when it is not shown)
    user_prompt,    \* the prompt box's text
    event,          \* the user event that caused the last run
    form,           \* the form values that event carried (Save Entry)
    branch,         \* the view branch the last run took
    error,          \* the exception that ended the last run, or "none"
    opd_json,       \* <<records>> once line 94 assigned it, <<>> while unbound
    df,             \* <<frame>> the metrics, charts and table were drawn from
    kpi,            \* <<metrics>> shown, <<>> when none were
    messages,       \* st.success / st.info / st.warning / the AI response box
    appends,        \* the rows passed to append_row in the last run
    prompt,         \* <<prompt>> once line 173 built it
    requests        \* the prompts sent to the inference service in the last run

vars ==
    <<store, current_view, selected_date, user_prompt, event, form, branch,
      error, opd_json, df, kpi, messages, appends, prompt, requests>>

\* The sidebar buttons (lines 40-44).
SidebarView(view, overview_btn, entry_btn) ==
    IF entry_btn THEN "entry" ELSE IF overview_btn THEN "overview" ELSE view

\* SubmitHandler switching the view before it appends.
SubmitHandlerSwitchFirst(rows, f, appendOk) ==
    IF appendOk
    THEN [store |-> AppendRow(rows, Row(f)), view |-> "overview", error |-> "none",
          appends |-> <<Row(f)>>, messages |-> {"success"}]
    ELSE [store |-> rows, view |-> "overview", error |-> "StoreError",
          appends |-> <<Row(f)>>, messages |-> {}]

\* `if submitted:` (lines 70-83): one append_row; when it raises, the run
\* ends there, before st.success and before the view is switched.
SubmitHandler(rows, f, appendOk) ==
    IF appendOk
    THEN [store |-> AppendRow(rows, Row(f)), view |-> "overview", error |-> "none",
          appends |-> <<Row(f)>>, messages |-> {"success"}]
    ELSE [store |-> rows, view |-> "entry", error |-> "StoreError",
          appends |-> <<Row(f)>>, messages |-> {}]

\* `if cancel:` (lines 85-86).
CancelHandler(rows) ==
    [store |-> rows, view |-> "overview", error |-> "none", appends |-> <<>>,
     messages |-> {}]

\* The entry branch (lines 48-86): the form, then the handler of the button
\* that was clicked.  It binds neither opd_json nor df.
EntryBranch(rows, submitted, cancel, f, appendOk) ==
    LET h == IF submitted THEN SubmitHandler(rows, f, appendOk)
             ELSE IF cancel THEN CancelHandler(rows)
             ELSE [store |-> rows, view |-> "entry", error |-> "none",
                   appends |-> <<>>, messages |-> {}]
    IN [store |-> h.store, view |-> h.view, error |-> h.error,
        appends |-> h.appends, messages |-> h.messages, branch |-> "entry",
        opd_json |-> <<>>, df |-> <<>>, kpi |-> <<>>, date_shown |-> FALSE]

\* OverviewFrames taking opd_json after the date filter.
OverviewFramesJsonAfterFilter(records, selected) ==
    [opd_json |-> DateFilter(records, selected), df |-> DateFilter(records, selected)]

\* Lines 93-107: opd_json is taken from the frame before the date filter,
\* df is the frame after it.
OverviewFrames(records, selected) ==
    [opd_json |-> records, df |-> DateFilter(records, selected)]

\* OverviewShown without the `if df.empty` branch.
OverviewShownNoEmptyCheck(records, selected) ==
    [df |-> <<DateFilter(records, selected)>>,
     kpi |-> <<Kpis(DateFilter(records, selected))>>, messages |-> {},
     date_shown |-> TRUE]

\* What the overview shows for a frame (lines 96-130): the info message for
\* an empty fetch, else the date picker and the metrics of the filtered frame.
OverviewShown(records, selected) ==
    IF records = <<>>
    THEN [df |-> <<>>, kpi |-> <<>>, messages |-> {"info"}, date_shown |-> FALSE]
    ELSE LET fr == OverviewFrames(records, selected)
         IN [df |-> <<fr.df>>, kpi |-> <<Kpis(fr.df)>>, messages |-> {},
             date_shown |-> TRUE]

\* The overview branch (lines 89-130).  The fetch may raise, which ends the
\* run.
OverviewBranch(rows, view, selected, fetchOk) ==
    IF ~fetchOk
    THEN [store |-> rows, view |-> view, error |-> "StoreError", appends |-> <<>>,
          messages |-> {}, branch |-> "overview", opd_json |-> <<>>, df |-> <<>>,
          kpi |-> <<>>, date_shown |-> FALSE]
    ELSE LET records == GetAllRecords(rows)
             shown == OverviewShown(records, selected)
         IN [store |-> rows, view |-> view, error |-> "none", appends |-> <<>>,
             messages |-> shown.messages, branch |-> "overview",
             opd_json |-> <<OverviewFrames(records, selected).opd_json>>,
             df |-> shown.df, kpi |-> shown.kpi, date_shown |-> shown.date_shown]

\* `if st.button("Generate Response"):` (lines 175-194).
GenerateHandler(text, p, inferOk) ==
    IF IsBlank(text)
    THEN [requests |-> <<>>, messages |-> {"warning"}, error |-> "none"]
    ELSE IF inferOk
    THEN [requests |-> <<p>>, messages |-> {"ai_response"}, error |-> "none"]
    ELSE [requests |-> <<p>>, messages |-> {}, error |-> "InferenceError"]

\* Lines 164-194 after a view branch b: nothing when the branch raised; else
\* the prompt box, then line 173, which raises NameError while opd_json is
\* unbound, then the Generate button.
PromptSection(b, text, generate, inferOk) ==
    IF b.error # "none"
    THEN [error |-> b.error, user_prompt |-> <<>>, prompt |-> <<>>,
          requests |-> <<>>, messages |-> b.messages]
    ELSE IF b.opd_json = <<>>
    THEN [error |-> "NameError", user_prompt |-> text, prompt |-> <<>>,
          requests |-> <<>>, messages |-> b.messages]
    ELSE LET p == build_opd_prompt(b.opd_json[1], text)
             g == IF generate THEN GenerateHandler(text, p, inferOk)
                  ELSE [requests |-> <<>>, messages |-> {}, error |-> "none"]
         IN [error |-> g.error, user_prompt |-> text, prompt |-> <<p>>,
             requests |-> g.requests, messages |-> b.messages \cup g.messages]

\* One run of the script for the event `kind`, from session view `view`
\* and widget values `selected` and `text`.
Script(kind, view, selected, text, f, appendOk, fetchOk, inferOk) ==
    \E view1 \in {SidebarView(view, kind = "overview_btn", kind = "entry_btn")} :
    \E b \in {IF view1 = "entry"
              THEN EntryBranch(store, kind = "save", kind = "cancel", f, appendOk)
              ELSE OverviewBranch(store, view1, selected, fetchOk)} :
    \E t \in {PromptSection(b, text, kind = "generate", inferOk)} :
       /\ store' = b.store
       /\ current_view' = b.view
       /\ selected_date' = IF b.date_shown THEN selected ELSE PyNone
       /\ user_prompt' = t.user_prompt
       /\ event' = kind
       /\ form' = IF kind = "save" THEN f ELSE NoForm
       /\ branch' = b.branch
       /\ error' = t.error
       /\ opd_json' = b.opd_json
       /\ df' = b.df
       /\ kpi' = b.kpi
       /\ messages' = t.messages
       /\ appends' = b.appends
       /\ prompt' = t.prompt
       /\ requests' = t.requests

\* Which widgets the page of the last run holds.
PageShown == branch # "none"
FormShown == branch = "entry"
DatePickerShown == branch = "overview" /\ df # <<>>
PromptBoxShown == branch # "none" /\ error # "StoreError"
GenerateShown == prompt # <<>>

\* The session as lines 18-22 leave it, before the first run.
Init ==
    /\ store = <<>>
    /\ current_view = "overview"
    /\ selected_date = PyNone
    /\ user_prompt = <<>>
    /\ event = "init"
    /\ form = NoForm
    /\ branch = "none"
    /\ error = "none"
    /\ opd_json = <<>>
    /\ df = <<>>
    /\ kpi = <<>>
    /\ messages = {}
    /\ appends = <<>>
    /\ prompt = <<>>
    /\ requests = <<>>

\* The page is opened or reloaded: a new session, every widget at its default.
Load ==
    \E fetchOk \in BOOLEAN :
        Script("load", "overview", PyNone, <<>>, NoForm, TRUE, fetchOk, TRUE)

\* Sidebar "OPD Overview".
ClickOverview ==
    /\ PageShown
    /\ \E fetchOk \in BOOLEAN :
        Script("overview_btn", current_view, selected_date, user_prompt, NoForm,
               TRUE, fetchOk, TRUE)

\* Sidebar "Add OPD Entry".
ClickAddEntry ==
    /\ PageShown
    /\ Script("entry_btn", current_view, selected_date, user_prompt, NoForm,
              TRUE, TRUE, TRUE)

\* "Save Entry" on the form the page holds.
SaveEntry ==
    /\ FormShown
    /\ Len(store) < MaxRows
    /\ \E f \in SampleForms, appendOk \in BOOLEAN, fetchOk \in BOOLEAN :
        /\ FormValid(f)
        /\ Script("save", current_view, selected_date, user_prompt, f, appendOk,
                  fetchOk, TRUE)

\* "Cancel" on the form the page holds.
Cancel ==
    /\ FormShown
    /\ \E fetchOk \in BOOLEAN :
        Script("cancel", current_view, selected_date, user_prompt, NoForm, TRUE,
               fetchOk, TRUE)

\* A date is picked or cleared in the overview's date filter.
SelectDate ==
    /\ DatePickerShown
    /\ \E d \in {PyDate(x) : x \in SampleDates} \cup {PyNone}, fetchOk \in BOOLEAN :
        Script("date", current_view, d, user_prompt, NoForm, TRUE, fetchOk, TRUE)

\* The text of the prompt box is edited.
EditPrompt ==
    /\ PromptBoxShown
    /\ \E text \in PromptTexts, fetchOk \in BOOLEAN :
        Script("prompt_edit", current_view, selected_date, text, NoForm, TRUE,
               fetchOk, TRUE)

\* "Generate Response".
Generate ==
    /\ GenerateShown
    /\ \E fetchOk \in BOOLEAN, inferOk \in BOOLEAN :
        Script("generate", current_view, selected_date, user_prompt, NoForm, TRUE,
               fetchOk, inferOk)

Next ==
    \/ Load
    \/ ClickOverview
    \/ ClickAddEntry
    \/ SaveEntry
    \/ Cancel
    \/ SelectDate
    \/ EditPrompt
    \/ Generate

Spec == Init /\ [][Next]_vars

\* ------------------------------------------------------------ claims
\* The last run was an overview whose fetch succeeded.
OverviewFetched == branch = "overview" /\ opd_json # <<>>

\* The records of the sheet whose Date is the ISO text of the date d.
RecordsDated(records, d) ==
    SelectSeq(records, LAMBDA r : r["Date"].t = "str" /\ r["Date"].s = IsoFormatTable[d.n])

\* C1: in an overview that shows metrics, the frame they are drawn from is
\* exactly the stored records whose Date denotes the selected date, and all
\* the records when no date is selected.
C1_DateFilterExact ==
    (OverviewFetched /\ df # <<>>) =>
        df[1] = IF selected_date = PyNone THEN GetAllRecords(store)
                ELSE RecordsDated(GetAllRecords(store), selected_date)

\* C2: every run whose store calls succeed, in either view, fetches the
\* records, builds the prompt from them and does not fail.
C2_EveryRenderFetchesAndBuilds ==
    (branch # "none" /\ error # "StoreError") =>
        /\ error # "NameError"
        /\ opd_json = <<GetAllRecords(store)>>
        /\ prompt # <<>>

\* C3: a Generate click with an empty or whitespace-only instruction sends
\* nothing and shows the warning; a request is sent only by a Generate click
\* with an instruction that is not blank, and then exactly one.
AllWhitespace(text) == \A i \in 1..Len(text) : text[i] \in Whitespace
GenerateHandled == event = "generate" /\ error # "StoreError"
C3_BlankPromptNeverCalls ==
    /\ (GenerateHandled /\ AllWhitespace(user_prompt)) =>
           (requests = <<>> /\ "warning" \in messages)
    /\ (GenerateHandled /\ ~AllWhitespace(user_prompt)) =>
           (Len(requests) = 1 /\ "warning" \notin messages)
    /\ requests # <<>> => (GenerateHandled /\ ~AllWhitespace(user_prompt))
    /\ \A i \in 1..Len(requests) :
           requests[i].data = GetAllRecords(store)
           /\ requests[i].tasks[1].insert = user_prompt
C3_Witness ==
    /\ event = "generate"
    /\ user_prompt = <<" ">>
    /\ "warning" \in messages
    /\ requests = <<>>

\* C4: every step leaves the rows the sheet had in place and in order; only
\* a Save Entry handled in the entry view changes the sheet, by one row at
\* the end.
C4_Step ==
    /\ Len(store') >= Len(store)
    /\ SubSeq(store', 1, Len(store)) = store
    /\ store' # store =>
           /\ event' = "save" /\ branch' = "entry"
           /\ Len(store') = Len(store) + 1
C4_AppendOnly == [][C4_Step]_vars
C4_Witness ==
    /\ Len(store) >= 2
    /\ event \in {"cancel", "generate", "date", "overview_btn"}

\* The row a submission is to write: the eight fields in sheet order, the
\* date as its ISO text.
ExpectedRow(f) ==
    <<PyStr(IsoFormatTable[f.opd_date.n]), f.patient_name, f.age, f.gender,
      f.prakriti, f.complaint, f.diagnosis, f.follow_up>>
SaveHandled == event = "save" /\ branch = "entry"

\* C5: a Save Entry handled in the entry view (current_view is "entry" when
\* the run reaches line 48) issues exactly one append, of the eight fields in
\* header order; when the append succeeds the row is the sheet's new last
\* row, the success message shows and the view becomes "overview", and the
\* next run, unless it is a click on "Add OPD Entry", takes the overview
\* branch.  A run that takes the overview branch appends nothing, also when
\* its event is a Save Entry click on a form an earlier run left on the page.
C5_Step ==
    /\ SaveHandled' =>
           /\ appends' = <<ExpectedRow(form')>>
           /\ Len(appends'[1]) = Len(HEADER)
           /\ error' # "StoreError" =>
                  /\ store' = Append(store, ExpectedRow(form'))
                  /\ current_view' = "overview"
                  /\ "success" \in messages'
    /\ ~SaveHandled' => appends' = <<>>
    /\ (SaveHandled /\ error # "StoreError" /\ event' # "entry_btn") =>
           branch' = "overview"
C5_SaveAppendsOnce == [][C5_Step]_vars
C5_Witness ==
    /\ SaveHandled
    /\ Len(store) = 2
    /\ store[2] = ExpectedRow(form)
    /\ current_view = "overview"

\* C6: an overview fetch returns one record per stored row, in sheet order,
\* whose eight named fields equal the values that were submitted.
C6_RoundTrip ==
    OverviewFetched =>
        /\ Len(opd_json[1]) = Len(store)
        /\ \A i \in 1..Len(store) : \A k \in 1..Len(HEADER) :
               PyEq(opd_json[1][i][HEADER[k]], store[i][k])

\* The frame the last overview aggregated over, when it is empty.
EmptyStoreFetched == OverviewFetched /\ opd_json[1] = <<>>
FilterMatchedNothing == OverviewFetched /\ df = << <<>> >>
PlaceholderKpi ==
    [total |-> 0, followups |-> 0, top_diagnosis |-> PyStr("-"),
     top_prakriti |-> PyStr("-")]
OverviewFailed == error \in {"StoreError", "NameError"}

\* C7 as stated: whenever the set the overview aggregates over is empty, the
\* run does not fail and shows total 0, follow-ups 0 and "-" twice.
C7_EmptySetShowsPlaceholders ==
    (EmptyStoreFetched \/ FilterMatchedNothing) =>
        (~OverviewFailed /\ kpi = <<PlaceholderKpi>>)

\* C7 amended: with no data rows the overview shows the info message and no
\* metrics; with rows none of which passes the date filter it shows total 0,
\* follow-ups 0 and "-" twice; neither run fails.
C7_EmptyOverview ==
    /\ EmptyStoreFetched =>
           (~OverviewFailed /\ kpi = <<>> /\ df = <<>> /\ "info" \in messages)
    /\ FilterMatchedNothing =>
           (~OverviewFailed /\ kpi = <<PlaceholderKpi>> /\ "info" \notin messages)
C7_Witness ==
    /\ FilterMatchedNothing
    /\ store # <<>>
    /\ selected_date # PyNone
    /\ kpi = <<PlaceholderKpi>>

\* C8: a prompt that was built holds the role statement, the five rules, all
\* the records of the sheet whatever the date filter, and the seven tasks,
\* the first with the text of the prompt box.
C8_PromptEmbedsAllRecords ==
    prompt # <<>> =>
        /\ prompt[1].role = "You are assisting an Ayurvedic doctor."
        /\ Len(prompt[1].rules) = 5
        /\ prompt[1].rules[1] = "Do NOT diagnose"
        /\ prompt[1].rules[2] = "Do NOT suggest medicines"
        /\ prompt[1].rules[3] = "Do NOT change treatment"
        /\ prompt[1].data = GetAllRecords(store)
        /\ Len(prompt[1].tasks) = 7
        /\ prompt[1].tasks[1].insert = user_prompt
        /\ \A i \in 2..7 : prompt[1].tasks[i].insert = <<>>
        /\ \A i \in 1..7 : prompt[1].tasks[i].text = TASKS(<<>>)[i].text
C8_Witness ==
    /\ prompt # <<>>
    /\ selected_date # PyNone
    /\ Len(store) >= 2
    /\ Len(prompt[1].data) = Len(store)
    /\ df # <<prompt[1].data>>
    /\ user_prompt # <<>>

\* The values of a column that occur most often in it.
MostFrequent(col) ==
    {v \in {col[i] : i \in 1..Len(col)} :
        \A j \in 1..Len(col) : CountOf(col, col[j]) <= CountOf(col, v)}
\* Of those, the one that occurs first in the column.
FirstMet(col) ==
    col[CHOOSE i \in 1..Len(col) :
           col[i] \in MostFrequent(col)
           /\ \A j \in 1..(i - 1) : col[j] \notin MostFrequent(col)]
\* Of those, the least in string order.
LeastSorted(col) ==
    CHOOSE v \in MostFrequent(col) :
        \A w \in MostFrequent(col) : Rank(v) <= Rank(w)
KpiOfRows == kpi # <<>> /\ df # <<>> /\ df[1] # <<>>

C10_Step ==
    /\ SaveHandled' =>
           /\ appends' # <<>>
           /\ (store' = store) <=> (error' = "StoreError")
           /\ store' = store =>
                  /\ "success" \notin messages'
                  /\ current_view' = "entry"
                  /\ prompt' = <<>>
                  /\ requests' = <<>>
    /\ "success" \in messages' =>
           (appends' # <<>> /\ store' = Append(store, appends'[1]))
C10_FailedSave == [][C10_Step]_vars
C10_Witness ==
    /\ SaveHandled
    /\ error = "StoreError"
    /\ appends # <<>>
    /\ current_view = "entry"
    /\ Len(store) = 1

====
